---- MODULE Spec2Model ----
(***************************************************************************)
(* Model of src/main.py (PoE2 Chicken Bot): the ChickenBot resource        *)
(* monitor.  Three kinds of threads share the ChickenBot instance:         *)
(*   - the display (tkinter) thread, which runs run_monitor / stop_monitor *)
(*     when the monitor button is pressed;                                 *)
(*   - the "Monitor" threads spawned by run_monitor, each running          *)
(*     resource_monitor_loop;                                              *)
(*   - the threading.Timer threads started by _kb_panic, each running      *)
(*     unblock_keys 2.0 seconds after it was started.                      *)
(* The code takes no lock.  A step of the model is a stretch of code that  *)
(* touches the shared fields at one place: the statements before the loop, *)
(* the while test, the read and its report, the escape/reset decision,     *)
(* PostMessage, each block_key, the assignment of ESCAPED, the             *)
(* reattachment, the exit, and each unblock_key of unblock_keys.           *)
(* _setup_backend and run_monitor are taken as one step each.              *)
(*                                                                         *)
(* Time is counted in whole seconds (now); a loop iteration (sleep 0.05)   *)
(* takes less than one unit, so any number of iterations fits between two  *)
(* advances of the clock.                                                  *)
(*                                                                         *)
(* keyboard.block_key / unblock_key are modelled by the set of blocked     *)
(* keys; unblock_key of a key that is not blocked raises KeyError, the     *)
(* exception unblock_keys catches.                                         *)
(*                                                                         *)
(* A run is cut short by a budget of attaches and of panics (budget, fixed *)
(* by the initial state): a step that would exceed it is not taken.        *)
(***************************************************************************)
EXTENDS Integers, Sequences, FiniteSets, Bags, TLC

\* ------------------------------------------------------------ bounds
MaxThreads      == 2   \* Monitor threads alive at the same time
MaxTime         == 3   \* the clock stops advancing here (seconds)
MaxAttach       == 2   \* calls of _setup_backend in one run
MaxPanics       == 1   \* panics delivered in one run
ReattachBudget  == 3   \* calls of _setup_backend in one run of SpecReattach
RacePanics      == 2   \* panics delivered in one run of SpecRace
KeyPanics       == 2   \* panics delivered in one run of SpecKeys
MaxOffsets      == 2   \* length of a resource's offset list
MaxAddr         == 2   \* highest mapped address of the simulated process

\* ------------------------------------------------- program constants
backend_interval    == 2       \* main.py:505  (2.0 s)
KeyBlockDelay       == 2       \* main.py:591  Timer(2.0, ...)
SentinelHigh        == 20000   \* main.py:525
DefaultThreshold    == 500     \* main.py:38   RESOURCE_CONFIG["hp"]
ShieldThreshold     == 10      \* main.py:48   RESOURCE_CONFIG["ms"]

Threads  == 1..MaxThreads
None     == 0
\* values read_int can deliver at the pointer
Values   == {0, 450, 800, 900, SentinelHigh}
\* what one call of pm.read_int gives: an integer, an exception, or something
\* int() does not accept
Reads    == [kind : {"int"}, val : Values]
            \cup {[kind |-> "error", val |-> 0], [kind |-> "nonnum", val |-> 0]}
\* outcomes of one _setup_backend call
AttachOutcomes == {"ok", "noproc", "nowin", "raise"}
\* the sampled sequence of the spec's scenario (threshold 500)
Scenario == <<800, 450, 450, 900>>

VARIABLES
    is_monitoring,   \* ChickenBot.is_monitoring
    ESCAPED,         \* ChickenBot.ESCAPED
    pm,              \* ChickenBot.pm: id of the attach that opened it, None = 0
    hwnd,            \* ChickenBot.hwnd: id of the attach that found it
    pointer,         \* ChickenBot.pointer: id of the attach that resolved it
    nattach,         \* number of _setup_backend calls so far (fresh handle ids)
    button,          \* GUI.monitor_button: "Start" or "Stop"
    escape_status,   \* GUI.escape_status_label text
    blocked,         \* keys suppressed by keyboard.block_key
    timers,          \* bag of deadlines of the started threading.Timer objects
    tmid,            \* Timer threads between unblock_key('esc') and ('space')
    now,             \* time(), in seconds
    disp,            \* position of the display thread
    loops,           \* per Monitor thread: pc and the locals of the loop
    panics,          \* history: panics delivered (post + key-block engage)
    transitions,     \* history: ESCAPED False -> True transitions
    stopped,         \* history: stop_monitor returned, no thread spawned since
    obs,             \* history: reports of a session that runs undisturbed
    budget,          \* the attaches and panics one run may make (fixed by Init)
    threshold_entry, \* GUI.threshold_entries: the text of each entry
    selected_resource, \* GUI.selected_resource: the key the radio buttons hold
    pointer_res,     \* the resource key self.pointer was resolved for
    current_value,   \* GUI.current_value_labels[res]: the value shown
    engaged,         \* history: end of the 2 s that follow the latest panic
    attach_thread,   \* history: the thread that ran the latest _setup_backend
    ca               \* one activation of Resource.calculate_address

\* the entry and the activation of calculate_address, which no step of the
\* monitor writes, and the variables that few of them write
static  == <<threshold_entry, selected_resource, ca>>
more    == <<static, current_value, engaged, attach_thread>>

vars == <<is_monitoring, ESCAPED, pm, hwnd, pointer, nattach, button,
          escape_status, blocked, timers, tmid, now, disp, loops, panics,
          transitions, stopped, obs, budget, more>>

backend == <<pm, hwnd, pointer, nattach, pointer_res>>
keys    == <<blocked, timers, tmid>>
hist    == <<panics, transitions, stopped, obs, budget>>

\* A Monitor thread that does not exist (never spawned, or returned).
NoLoop == [pc |-> "none", threshold |-> 0, last_backend_setup |-> 0,
           resource_int |-> 0, after_stop |-> -1, last_attempt |-> -1,
           absorbed |-> FALSE, post_failed |-> FALSE,
           threshold_res |-> "none", value_res |-> "none"]

ObsOff == [on |-> FALSE, tid |-> 0, reports |-> <<>>, panics |-> 0]

Alive(t)  == loops[t].pc # "none"
\* the thread has passed the while test and is inside the loop body
InBody(t) == loops[t].pc \in {"read", "decide", "post", "kb_esc", "kb_space",
                              "set_escaped", "reconnect"}

\* ------------------------------------------------- resources
\* the keys of RESOURCE_CONFIG (main.py:34-50)
Resources == {"hp", "mp", "ms"}
\* RESOURCE_CONFIG[r]["default_threshold"] (main.py:38, 43, 48)
default_threshold(r) == IF r = "ms" THEN ShieldThreshold ELSE DefaultThreshold

\* ------------------------------------------------- texts of the entry
Digits == <<"0", "1", "2", "3", "4", "5", "6", "7", "8", "9">>
DigitOf(c) == (CHOOSE i \in 1..Len(Digits) : Digits[i] = c) - 1
IsDigit(c) == \E i \in 1..Len(Digits) : Digits[i] = c

RECURSIVE str(_)
\* str(n) for n >= 0 (main.py:270): the decimal digits of n
str(n) == IF n < 10 THEN <<Digits[n + 1]>>
          ELSE Append(str(n \div 10), Digits[(n % 10) + 1])

RECURSIVE digits_value(_)
digits_value(txt) == IF txt = <<>> THEN 0
                     ELSE 10 * digits_value(SubSeq(txt, 1, Len(txt) - 1))
                          + DigitOf(txt[Len(txt)])

\* int(txt) (main.py:479) for a text of digits; any other text, the empty one
\* included, raises ValueError.
int_of(txt) ==
    IF txt # <<>> /\ \A i \in 1..Len(txt) : IsDigit(txt[i])
    THEN [ok |-> TRUE, val |-> digits_value(txt)]
    ELSE [ok |-> FALSE, val |-> 0]

\* ------------------------------------------------- calculate_address
\* no activation of calculate_address
NoCall == [pc |-> "none", mem |-> <<>>, module |-> 0, base |-> 0,
           offsets |-> <<>>, faults |-> <<>>, i |-> 0, addr |-> 0]

\* The simulated process: its mapped addresses hold 8-byte values; a read
\* outside them, or one the process refuses, raises MemoryReadError.
Addrs        == 0..MaxAddr
Memories     == [Addrs -> Addrs]
ModuleBases  == {0, 1}
Bases        == {0, 1}
OffsetValues == {0, 1}
OffsetLists  == UNION {[1..n -> OffsetValues] : n \in 0..MaxOffsets}

\* pm.read_longlong(addr) (main.py:79) in memory mem; refused tells whether
\* the process refuses this read.
read_longlong(mem, addr, refused) ==
    IF addr \in DOMAIN mem /\ ~refused
    THEN [ok |-> TRUE, val |-> mem[addr]]
    ELSE [ok |-> FALSE, val |-> 0]

\* the body of the for loop with a failed read restarting from address 0
deref_restarting(mem, addr, offset, refused) ==
    IF read_longlong(mem, addr, refused).ok
    THEN read_longlong(mem, addr, refused).val + offset
    ELSE offset

\* the body of the for loop (main.py:78-81): the new value of addr.
deref(mem, addr, offset, refused) ==
    IF read_longlong(mem, addr, refused).ok
    THEN read_longlong(mem, addr, refused).val + offset
    ELSE addr

\* calculate_address, main.py:74-76: the start address.
ca_enter ==
    /\ ca.pc = "call"
    /\ ca' = [ca EXCEPT !.pc = "for", !.addr = ca.module + ca.base, !.i = 1]
    /\ UNCHANGED <<is_monitoring, ESCAPED, backend, button, escape_status,
                   keys, now, disp, loops, hist, threshold_entry,
                   selected_resource,
                   current_value, engaged, attach_thread>>

\* calculate_address, main.py:77-81: one offset.
ca_offset ==
    /\ ca.pc = "for"
    /\ ca.i <= Len(ca.offsets)
    /\ ca' = [ca EXCEPT
              !.addr = deref(ca.mem, ca.addr, ca.offsets[ca.i], ca.faults[ca.i]),
              !.i = ca.i + 1]
    /\ UNCHANGED <<is_monitoring, ESCAPED, backend, button, escape_status,
                   keys, now, disp, loops, hist, threshold_entry,
                   selected_resource,
                   current_value, engaged, attach_thread>>

\* calculate_address, main.py:82: return addr.
ca_return ==
    /\ ca.pc = "for"
    /\ ca.i > Len(ca.offsets)
    /\ ca' = [ca EXCEPT !.pc = "returned"]
    /\ UNCHANGED <<is_monitoring, ESCAPED, backend, button, escape_status,
                   keys, now, disp, loops, hist, threshold_entry,
                   selected_resource,
                   current_value, engaged, attach_thread>>

\* The fields of the ChickenBot and of its GUI after ChickenBot.__init__
\* (main.py:407-414, 99-135, 256-271), with the budget of the run.
Fields(a, p) ==
    /\ budget = [attach |-> a, panics |-> p]
    /\ is_monitoring = FALSE
    /\ ESCAPED = FALSE
    /\ pm = None
    /\ hwnd = None
    /\ pointer = None
    /\ nattach = 0
    /\ button = "Start"
    /\ escape_status = "No"
    /\ blocked = {}
    /\ timers = EmptyBag
    /\ tmid = 0
    /\ now = 0
    /\ disp = "idle"
    /\ loops = [t \in Threads |-> NoLoop]
    /\ panics = 0
    /\ transitions = 0
    /\ stopped = FALSE
    /\ obs = ObsOff
    /\ threshold_entry = [r \in Resources |-> str(default_threshold(r))]
    /\ selected_resource = "hp"
    /\ pointer_res = "none"
    /\ current_value = 0
    /\ engaged = 0
    /\ attach_thread = "none"

\* The state after ChickenBot.__init__ (main.py:407-414), for runs of at most
\* a attaches and p panics; no calculate_address is under way.
Constructed(a, p) == Fields(a, p) /\ ca = NoCall

Init == Constructed(MaxAttach, MaxPanics)

\* ------------------------------------------------------------ clock
Tick ==
    /\ now < MaxTime
    /\ now' = now + 1
    /\ UNCHANGED <<is_monitoring, ESCAPED, backend, button, escape_status, keys, disp, loops, hist, more>>

\* ------------------------------------------------- backend attach
\* _setup_backend that forgets the pointer when the window is not found
setup_backend_clearing(o) ==
    LET id == nattach + 1 IN
    CASE o = "noproc" -> [pm |-> pm, hwnd |-> hwnd, pointer |-> pointer,
                          res |-> pointer_res,
                          ret |-> "none"]
      [] o = "nowin"  -> [pm |-> id, hwnd |-> hwnd, pointer |-> None,
                          res |-> pointer_res,
                          ret |-> "none"]
      [] o = "raise"  -> [pm |-> id, hwnd |-> id, pointer |-> pointer,
                          res |-> pointer_res,
                          ret |-> "raise"]
      [] OTHER        -> [pm |-> id, hwnd |-> id, pointer |-> id,
                          res |-> selected_resource,
                          ret |-> "true"]

\* _setup_backend (main.py:416-437) with outcome o: the new values of pm, hwnd
\* and pointer, and how it ends ("true": returned
\* True, "none": returned None after reporting, "raise": an exception left it).
\*   noproc: pymem.Pymem raised, pm is not assigned           (426-429)
\*   nowin : pm is the new handle, FindWindow found nothing   (430-433)
\*   raise : pm and hwnd are new, setup_pointer raised        (434-436, 544)
\*   ok    : pm, hwnd new, pointer resolved through the new pm (434-437)
setup_backend(o) ==
    LET id == nattach + 1 IN
    CASE o = "noproc" -> [pm |-> pm, hwnd |-> hwnd, pointer |-> pointer,
                          res |-> pointer_res,
                          ret |-> "none"]
      [] o = "nowin"  -> [pm |-> id, hwnd |-> hwnd, pointer |-> pointer,
                          res |-> pointer_res,
                          ret |-> "none"]
      [] o = "raise"  -> [pm |-> id, hwnd |-> id, pointer |-> pointer,
                          res |-> pointer_res,
                          ret |-> "raise"]
      [] OTHER        -> [pm |-> id, hwnd |-> id, pointer |-> id,
                          res |-> selected_resource,
                          ret |-> "true"]

\* run_monitor as the target of a spawned thread
run_monitor_thread_spawned == "monitor"

\* the thread that executes run_monitor: the display thread, whose main loop
\* runs the command of the "Start" button (main.py:299, 384-390)
run_monitor_thread == "display"
\* the thread that executes resource_monitor_loop: the "Monitor" thread of
\* which it is the target (main.py:564-565)
loop_thread == "monitor"

\* the lowest Monitor thread slot that is free
FreeSlots == {t \in Threads : ~Alive(t)}
NewSlot   == CHOOSE t \in FreeSlots : \A u \in FreeSlots : t <= u

\* `if self.pointer:` (main.py:562) after an attach that gave record a
pointer_found(a) == a.pointer # None

\* ------------------------------------------------- display thread
\* run_monitor (main.py:547-568), the command of the "Start" button.
run_monitor(o) ==
    /\ disp = "idle"
    /\ button = "Start"
    /\ nattach < budget.attach
    /\ LET a == setup_backend(o)
           spawn == a.ret # "raise" /\ pointer_found(a)
       IN
       /\ spawn => FreeSlots # {}
       /\ pm' = a.pm
       /\ hwnd' = a.hwnd
       /\ pointer' = a.pointer
       /\ pointer_res' = a.res
       /\ nattach' = nattach + 1
       /\ attach_thread' = run_monitor_thread
       /\ IF spawn
          THEN /\ button' = "Stop"
               /\ loops' = [loops EXCEPT ![NewSlot] = [NoLoop EXCEPT !.pc = "init"]]
               /\ stopped' = FALSE
               /\ obs' = IF FreeSlots = Threads /\ ~ESCAPED
                         THEN [ObsOff EXCEPT !.on = TRUE, !.tid = NewSlot]
                         ELSE ObsOff
          ELSE UNCHANGED <<button, loops, stopped, obs>>
    /\ UNCHANGED <<is_monitoring, ESCAPED, escape_status, keys, now, disp,
                   panics, transitions, budget, static, current_value, engaged>>

\* every Monitor thread alive when stop_monitor runs was spawned before it
MarkStopped == [t \in Threads |->
                  IF Alive(t) /\ loops[t].after_stop = -1
                  THEN [loops[t] EXCEPT !.after_stop = 0] ELSE loops[t]]

\* stop_monitor (main.py:439-452), the command of the "Stop" button, up to
\* unblock_key('esc') (main.py:448-450, 603).  A KeyError ends unblock_keys.
stop_monitor ==
    /\ disp = "idle"
    /\ button = "Stop"
    /\ is_monitoring' = FALSE
    /\ ESCAPED' = FALSE
    /\ loops' = MarkStopped
    /\ obs' = ObsOff
    /\ engaged' = 0
    /\ IF "esc" \in blocked
       THEN /\ blocked' = blocked \ {"esc"}
            /\ disp' = "stop_space"
            /\ UNCHANGED <<button, stopped>>
       ELSE /\ button' = "Start"
            /\ stopped' = TRUE
            /\ UNCHANGED <<blocked, disp>>
    /\ UNCHANGED <<backend, escape_status, timers, tmid, now, panics, transitions,
                   budget, static, current_value, attach_thread>>

\* stop_monitor from unblock_key('space') to its end (main.py:604-606, 451-452).
stop_monitor_space ==
    /\ disp = "stop_space"
    /\ blocked' = blocked \ {"space"}
    /\ button' = "Start"
    /\ stopped' = TRUE
    /\ disp' = "idle"
    /\ UNCHANGED <<is_monitoring, ESCAPED, backend, escape_status, timers, tmid,
                   now, loops, panics, transitions, obs, budget, more>>

\* ------------------------------------------------- Timer threads
\* A Timer started by _kb_panic fires: unblock_keys up to unblock_key('esc')
\* (main.py:591, 602-603).  A KeyError ends the call (605-606).
timer_fire ==
    \E d \in BagToSet(timers) :
        /\ now >= d
        /\ timers' = timers (-) SetToBag({d})
        /\ IF "esc" \in blocked
           THEN /\ blocked' = blocked \ {"esc"}
                /\ tmid' = tmid + 1
           ELSE UNCHANGED <<blocked, tmid>>
        /\ UNCHANGED <<is_monitoring, ESCAPED, backend, button, escape_status, now, disp, loops, hist, more>>

\* unblock_keys of a Timer thread: unblock_key('space') (main.py:604-606).
timer_space ==
    /\ tmid > 0
    /\ tmid' = tmid - 1
    /\ blocked' = blocked \ {"space"}
    /\ UNCHANGED <<is_monitoring, ESCAPED, backend, button, escape_status, timers, now, disp, loops, hist, more>>

\* ------------------------------------------------- Monitor threads
\* GUI.get_threshold_entry_value (main.py:336-342)
get_threshold_entry_value == threshold_entry[selected_resource]

\* get_threshold (main.py:470-483): the integer in the entry of the selected
\* resource, else (ValueError) the threshold of its Resource object, which is
\* the default threshold of RESOURCE_CONFIG.
get_threshold ==
    IF int_of(get_threshold_entry_value).ok
    THEN int_of(get_threshold_entry_value).val
    ELSE default_threshold(selected_resource)

\* the texts the user may type into the threshold entry
EntryTexts == {str(DefaultThreshold), <<"8", "5", "0">>, <<>>}

\* The user edits the threshold entry (GUI.create_label_and_entry,
\* main.py:192-194): an event of the display thread.
edit_threshold(txt) ==
    /\ disp = "idle"
    /\ txt # threshold_entry[selected_resource]
    /\ threshold_entry' = [threshold_entry EXCEPT ![selected_resource] = txt]
    /\ UNCHANGED <<is_monitoring, ESCAPED, backend, button, escape_status,
                   keys, now, disp, loops, hist, current_value, engaged,
                   attach_thread, selected_resource, ca>>

\* The user picks another radio button (GUI.create_radiobutton,
\* main.py:170-179): an event of the display thread.
select_resource(r) ==
    /\ disp = "idle"
    /\ r # selected_resource
    /\ selected_resource' = r
    /\ UNCHANGED <<is_monitoring, ESCAPED, backend, button, escape_status,
                   keys, now, disp, loops, hist, current_value, engaged,
                   attach_thread, threshold_entry, ca>>

\* the threshold read again from the entry at every comparison
loop_threshold_live(t) == get_threshold

\* the local variable threshold of the loop of thread t (main.py:503, 517, 520)
loop_threshold(t) == loops[t].threshold

\* update_escape_status with the two texts exchanged
update_escape_status_swapped(esc) == IF esc THEN "No" ELSE "Yes"

\* update_escape_status (main.py:462-468): the label text for the flag esc.
update_escape_status(esc) == IF esc THEN "Yes" ELSE "No"

\* the escape test of the loop (main.py:517)
escape_due(v, thr, esc) == v <= thr /\ ~esc
\* the reset test with the comparison turned round
reset_due_flipped(v, thr, esc) == v < thr /\ esc

\* the reset test of the loop (main.py:520)
reset_due(v, thr, esc) == v > thr /\ esc
\* the reconnection test of the loop (main.py:525-526)
reconnect_due(v, esc, current_time, last) ==
    /\ (v = 0 \/ v >= SentinelHigh \/ esc)
    /\ current_time - last > backend_interval

\* the Monitor threads that are delivering a panic
InPanic == {t \in Threads : loops[t].pc \in {"post", "kb_esc", "kb_space"}}

\* resource_monitor_loop, main.py:502-505: the statements before the loop.
loop_init(t) ==
    /\ loops[t].pc = "init"
    /\ is_monitoring' = TRUE
    /\ loops' = [loops EXCEPT ![t].pc = "while",
                              ![t].threshold = get_threshold,
                              ![t].threshold_res = selected_resource,
                              ![t].last_backend_setup = now]
    /\ UNCHANGED <<ESCAPED, backend, button, escape_status, keys, now,
                   disp, hist, more>>

\* main.py:507: the while test.  after_stop counts the iterations the thread
\* begins after a stop_monitor call made while it was alive.
loop_while(t) ==
    /\ loops[t].pc = "while"
    /\ IF is_monitoring
       THEN loops' = [loops EXCEPT
                ![t].pc = "read",
                ![t].after_stop = IF @ \in {0, 1} THEN @ + 1 ELSE @]
       ELSE loops' = [loops EXCEPT ![t].pc = "exit"]
    /\ UNCHANGED <<is_monitoring, ESCAPED, backend, button, escape_status, keys, now, disp, hist, more>>

\* the report of a sample v with status st by thread t, as the observer of the
\* undisturbed session sees it: it follows the session while its samples are
\* those of Scenario.
Observe(t, v, st) ==
    IF obs.on /\ obs.tid = t
    THEN IF Len(obs.reports) < Len(Scenario)
            /\ v = Scenario[Len(obs.reports) + 1]
            /\ loops[t].threshold = DefaultThreshold
         THEN [obs EXCEPT !.reports = Append(@, <<v, st>>)]
         ELSE ObsOff
    ELSE obs

\* read_resource_value that hands out a large value when read_int raises
read_resource_value_junk(raw) ==
    IF raw.kind = "error" THEN [kind |-> "int", val |-> SentinelHigh] ELSE raw

\* read_resource_value (main.py:608-617): what read_int gave, 0 when it raised.
read_resource_value(raw) ==
    IF raw.kind = "error" THEN [kind |-> "int", val |-> 0] ELSE raw

\* main.py:509-512: int(resource_value), 0 on ValueError or TypeError.
resource_int_of(resource_value) ==
    IF resource_value.kind = "int" THEN resource_value.val ELSE 0

\* main.py:508-515: read the value and report it and the escape status to the
\* GUI.  absorbed records that the value stands for a read that gave no
\* integer, value_res the resource whose pointer the read went through.
loop_read(t, raw) ==
    /\ loops[t].pc = "read"
    /\ LET v == resource_int_of(read_resource_value(raw)) IN
       /\ current_value' = v
       /\ escape_status' = update_escape_status(ESCAPED)
       /\ obs' = Observe(t, v, update_escape_status(ESCAPED))
       /\ loops' = [loops EXCEPT ![t].pc = "decide", ![t].resource_int = v,
                                 ![t].absorbed = raw.kind # "int",
                                 ![t].value_res = pointer_res]
    /\ UNCHANGED <<is_monitoring, ESCAPED, backend, button, keys, now,
                   disp, panics, transitions, stopped, budget, static,
                   engaged, attach_thread>>

\* main.py:517-522: the escape / reset decision.
loop_decide(t) ==
    /\ loops[t].pc = "decide"
    /\ LET v == loops[t].resource_int
           thr == loop_threshold(t)
       IN
       IF escape_due(v, thr, ESCAPED)
       THEN /\ panics + Cardinality(InPanic) < budget.panics
            /\ loops' = [loops EXCEPT ![t].pc = "post"]
            /\ UNCHANGED ESCAPED
       ELSE /\ loops' = [loops EXCEPT ![t].pc = "reconnect"]
            /\ ESCAPED' = IF reset_due(v, thr, ESCAPED) THEN FALSE ELSE ESCAPED
    /\ UNCHANGED <<is_monitoring, backend, button, escape_status, keys,
                   now, disp, hist, more>>

\* panic, main.py:577: PostMessage, and 580-582 when it raises.
panic_post(t, delivered) ==
    /\ loops[t].pc = "post"
    /\ IF delivered
       THEN /\ loops' = [loops EXCEPT ![t].pc = "kb_esc"]
            /\ UNCHANGED <<is_monitoring, obs>>
       ELSE /\ loops' = [loops EXCEPT ![t].pc = "reconnect",
                                      ![t].post_failed = TRUE]
            /\ is_monitoring' = FALSE
            /\ obs' = IF obs.on /\ obs.tid = t THEN ObsOff ELSE obs
    /\ UNCHANGED <<ESCAPED, backend, button, escape_status, keys, now,
                   disp, panics, transitions, stopped, budget, more>>

\* _kb_panic, main.py:589: block_key('esc').
kb_panic_esc(t) ==
    /\ loops[t].pc = "kb_esc"
    /\ blocked' = blocked \cup {"esc"}
    /\ loops' = [loops EXCEPT ![t].pc = "kb_space"]
    /\ UNCHANGED <<is_monitoring, ESCAPED, backend, button, escape_status, timers, tmid, now, disp, hist, more>>

\* _kb_panic, main.py:590-592: block_key('space') and the Timer's start.
kb_panic_space(t) ==
    /\ loops[t].pc = "kb_space"
    /\ blocked' = blocked \cup {"space"}
    /\ timers' = timers (+) SetToBag({now + KeyBlockDelay})
    /\ engaged' = now + KeyBlockDelay
    /\ panics' = panics + 1
    /\ obs' = IF obs.on /\ obs.tid = t THEN [obs EXCEPT !.panics = @ + 1] ELSE obs
    /\ loops' = [loops EXCEPT ![t].pc = "set_escaped"]
    /\ UNCHANGED <<is_monitoring, ESCAPED, backend, button, escape_status, tmid, now, disp, transitions, stopped,
                   budget, static, current_value, attach_thread>>

\* panic, main.py:579: self.ESCAPED = True.
panic_set_escaped(t) ==
    /\ loops[t].pc = "set_escaped"
    /\ ESCAPED' = TRUE
    /\ transitions' = IF ESCAPED THEN transitions ELSE transitions + 1
    /\ loops' = [loops EXCEPT ![t].pc = "reconnect"]
    /\ UNCHANGED <<is_monitoring, backend, button, escape_status, keys,
                   now, disp, panics, stopped, obs, budget, more>>

\* main.py:524-533 when the reconnection test holds: _setup_backend with
\* outcome o; last_backend_setup is assigned only when the call returns.
loop_reconnect(t, o) ==
    /\ loops[t].pc = "reconnect"
    /\ reconnect_due(loops[t].resource_int, ESCAPED, now, loops[t].last_backend_setup)
    /\ nattach < budget.attach
    /\ LET a == setup_backend(o) IN
       /\ pm' = a.pm
       /\ hwnd' = a.hwnd
       /\ pointer' = a.pointer
       /\ pointer_res' = a.res
       /\ nattach' = nattach + 1
       /\ attach_thread' = loop_thread
       /\ loops' = [loops EXCEPT
                ![t].pc = "while",
                ![t].resource_int = 0,
                ![t].absorbed = FALSE,
                ![t].value_res = "none",
                ![t].last_attempt = now,
                ![t].last_backend_setup = IF a.ret = "raise" THEN @ ELSE now]
    /\ UNCHANGED <<is_monitoring, ESCAPED, button, escape_status, keys, now, disp,
                   hist, static, current_value, engaged>>

\* main.py:524-533 when the reconnection test fails: only the sleep.
loop_sleep(t) ==
    /\ loops[t].pc = "reconnect"
    /\ ~reconnect_due(loops[t].resource_int, ESCAPED, now, loops[t].last_backend_setup)
    /\ loops' = [loops EXCEPT ![t].pc = "while", ![t].resource_int = 0,
                              ![t].absorbed = FALSE, ![t].value_res = "none"]
    /\ UNCHANGED <<is_monitoring, ESCAPED, backend, button, escape_status, keys, now, disp, hist, more>>

\* main.py:534: the loop has ended; the thread puts the "Start" button back.
loop_exit(t) ==
    /\ loops[t].pc = "exit"
    /\ button' = "Start"
    /\ loops' = [loops EXCEPT ![t] = NoLoop]
    /\ obs' = IF obs.on /\ obs.tid = t THEN ObsOff ELSE obs
    /\ UNCHANGED <<is_monitoring, ESCAPED, backend, escape_status, keys,
                   now, disp, panics, transitions, stopped, budget, more>>

\* ------------------------------------------------- specifications
\* the steps of the Monitor threads that need no passing of time
LoopSteps ==
    \/ \E t \in Threads : loop_init(t)
    \/ \E t \in Threads : loop_while(t)
    \/ \E t \in Threads, raw \in Reads : loop_read(t, raw)
    \/ \E t \in Threads : loop_decide(t)
    \/ \E t \in Threads, delivered \in BOOLEAN : panic_post(t, delivered)
    \/ \E t \in Threads : kb_panic_esc(t)
    \/ \E t \in Threads : kb_panic_space(t)
    \/ \E t \in Threads : panic_set_escaped(t)
    \/ \E t \in Threads : loop_sleep(t)
    \/ \E t \in Threads : loop_exit(t)

\* the steps that depend on the clock: its advance, the reattachment of the
\* loop and the Timer threads
TimedSteps ==
    \/ Tick
    \/ \E t \in Threads, o \in AttachOutcomes : loop_reconnect(t, o)
    \/ timer_fire
    \/ timer_space

\* The user presses "Start" when no Monitor thread is alive (a stopped loop
\* has had its 50 ms to end).
run_monitor_idle(o) == FreeSlots = Threads /\ run_monitor(o)

\* The monitor with the clock running and "Start" pressed only when idle.
Next ==
    \/ \E o \in AttachOutcomes : run_monitor_idle(o)
    \/ stop_monitor
    \/ stop_monitor_space
    \/ LoopSteps
    \/ TimedSteps

Spec == Init /\ [][Next]_vars

\* The same with more reattachments in a run.
InitReattach == Constructed(ReattachBudget, MaxPanics)
SpecReattach == InitReattach /\ [][Next]_vars

\* The button may be pressed at any moment, so Monitor threads of different
\* sessions overlap; everything happens within the first second (the clock
\* does not advance, so no Timer expires and no reattachment is due).
NextRace ==
    \/ \E o \in AttachOutcomes : run_monitor(o)
    \/ stop_monitor
    \/ stop_monitor_space
    \/ LoopSteps

InitRace == Constructed(MaxAttach, RacePanics)
SpecRace == InitRace /\ [][NextRace]_vars

\* calculate_address is called for a resource (base, offsets) in a process
\* (module base, memory, the reads it will refuse).
InitResolve ==
    /\ Fields(0, 0)
    /\ \E m \in Memories, mb \in ModuleBases, b \in Bases, offs \in OffsetLists :
          \E f \in [1..Len(offs) -> BOOLEAN] :
             ca = [pc |-> "call", mem |-> m, module |-> mb, base |-> b,
                   offsets |-> offs, faults |-> f, i |-> 0, addr |-> 0]

NextResolve == ca_enter \/ ca_offset \/ ca_return

SpecResolve == InitResolve /\ [][NextResolve]_vars

\* The threshold entry is edited while sessions start, run and stop; the clock
\* does not advance.
NextEdit ==
    \/ \E o \in AttachOutcomes : run_monitor_idle(o)
    \/ stop_monitor
    \/ stop_monitor_space
    \/ LoopSteps
    \/ \E txt \in EntryTexts : edit_threshold(txt)

SpecEdit == Init /\ [][NextEdit]_vars

\* Sessions the user never stops: each runs until a failed PostMessage ends
\* it.
NextSession ==
    \/ \E o \in AttachOutcomes : run_monitor_idle(o)
    \/ LoopSteps
    \/ TimedSteps

SpecSession == Init /\ [][NextSession]_vars

\* The same with a second panic in a run.
InitKeys == Constructed(MaxAttach, KeyPanics)
SpecKeys == InitKeys /\ [][NextSession]_vars

\* Sessions started, reattached and stopped in which no panic is delivered:
\* a tick whose value asks for one is not taken.
NextAttach ==
    \/ \E o \in AttachOutcomes : run_monitor_idle(o)
    \/ stop_monitor
    \/ \E t \in Threads : loop_init(t)
    \/ \E t \in Threads : loop_while(t)
    \/ \E t \in Threads, raw \in Reads : loop_read(t, raw)
    \/ \E t \in Threads : loop_decide(t)
    \/ \E t \in Threads, o \in AttachOutcomes : loop_reconnect(t, o)
    \/ \E t \in Threads : loop_sleep(t)
    \/ \E t \in Threads : loop_exit(t)
    \/ Tick

InitAttach == Constructed(MaxAttach, 0)
SpecAttach == InitAttach /\ [][NextAttach]_vars

\* Sessions the user never stops, during which the user changes the selected
\* resource.
NextSelect ==
    \/ NextSession
    \/ \E r \in Resources : select_resource(r)

SpecSelect == Init /\ [][NextSelect]_vars

\* ------------------------------------------------------------ claims
NoLoopAlive == \A t \in Threads : ~Alive(t)
\* a session is running: the run flag is set and a Monitor thread is polling
SessionRunning == is_monitoring /\ \E t \in Threads : InBody(t) \/ loops[t].pc = "while"

\* C1 (as claimed): over any run the number of panics delivered equals the
\* number of not-escaped -> escaped transitions, once no thread is between
\* the key-block engage and the assignment of ESCAPED.
C1_PanicsEqualTransitions ==
    (\A t \in Threads : loops[t].pc # "set_escaped") => panics = transitions

\* C2 (as claimed): at most one Monitor thread is inside the polling loop.
C2_SingleLoop == Cardinality({t \in Threads : InBody(t)}) <= 1

\* C3 (as claimed): whenever no session is active (no Monitor thread alive,
\* stop_monitor not in progress) ESCAPED is false.
C3_IdleNotEscaped == (NoLoopAlive /\ disp = "idle") => ~ESCAPED

\* C4 (as claimed): once stop_monitor has returned (and no session was started
\* since) neither key is blocked.
C4_StoppedKeysFree == stopped => blocked = {}

\* C5 (as claimed): a run_monitor whose attach fails (process not opened, or
\* window not found) spawns no thread and leaves the monitor idle.
C5_FailedAttachStaysIdle ==
    [][\A o \in {"noproc", "nowin"} :
          run_monitor(o) => UNCHANGED <<loops, button, is_monitoring>>]_vars

\* C6 (as claimed): two reattachment attempts of one session are never less
\* than backend_interval apart, whatever the outcome of the first.
C6_OneAttemptPerWindow ==
    [][\A t \in Threads :
          (/\ loops[t].pc = "reconnect"
           /\ nattach' # nattach
           /\ loops[t].last_attempt # -1)
          => now - loops[t].last_attempt >= backend_interval]_vars

Statuses == [i \in 1..Len(obs.reports) |-> obs.reports[i][2]]
IsPrefix(p, q) == Len(p) <= Len(q) /\ \A i \in 1..Len(p) : p[i] = q[i]

\* C7 (as claimed): in an undisturbed session with threshold 500 and samples
\* 800, 450, 450, 900 the reported statuses are No, Yes, Yes, No, with exactly
\* one panic.
C7_StatusOfSameSample ==
    obs.on => /\ IsPrefix(Statuses, <<"No", "Yes", "Yes", "No">>)
              /\ Len(obs.reports) = Len(Scenario) => obs.panics = 1

\* C7 (amended): the status reported for a sample is the escape flag as the
\* previous samples left it; in an undisturbed session with threshold 500 and
\* samples 800, 450, 450, 900 the reported statuses are No, No, Yes, Yes, with
\* exactly one panic.
C7_StatusLagsOneSample ==
    obs.on => /\ IsPrefix(Statuses, <<"No", "No", "Yes", "Yes">>)
              /\ Len(obs.reports) = Len(Scenario) => obs.panics = 1

\* the four samples of the scenario have been reported and decided
C7_Witness ==
    /\ obs.on
    /\ Len(obs.reports) = Len(Scenario)
    /\ loops[obs.tid].pc = "while"
    /\ ~ESCAPED

\* C8: a tick whose value is above the threshold sets ESCAPED to false when it
\* was true and leaves it when it was false; it delivers no panic and changes
\* no key block.
C8_AboveThresholdTick ==
    [][\A t \in Threads :
          (/\ loops[t].pc = "decide"
           /\ loops'[t].pc # "decide"
           /\ loops[t].resource_int > loops[t].threshold)
          => /\ ESCAPED => ~ESCAPED'
             /\ ~ESCAPED => ~ESCAPED'
             /\ loops'[t].pc = "reconnect"
             /\ UNCHANGED <<blocked, timers, tmid, panics>>]_vars

\* a running session has just reset the flag on a value above the threshold:
\* the tick reported "Yes" and ESCAPED is false with no stop_monitor involved
C8_Witness ==
    \E t \in Threads :
        /\ loops[t].pc = "reconnect"
        /\ loops[t].resource_int > loops[t].threshold
        /\ escape_status = "Yes"
        /\ ~ESCAPED
        /\ button = "Stop"
        /\ disp = "idle"
        /\ loops[t].after_stop = -1

\* C9 (as claimed): after a stop_monitor a Monitor thread that was alive begins
\* at most one further iteration.
C9_ExitsWithinOneIteration == \A t \in Threads : loops[t].after_stop <= 1

\* C10 (as claimed): run_monitor while a session is running changes neither
\* the handles nor the threads.
C10_StartWhileRunningNoOp ==
    [][((\E o \in AttachOutcomes : run_monitor(o)) /\ SessionRunning)
          => UNCHANGED <<pm, hwnd, pointer, loops>>]_vars

\* C11 (as claimed): a call of unblock_keys made while no other call of it is
\* under way and the escape key is not blocked (the call is then one step, of
\* a Timer or of stop_monitor) leaves neither key blocked.
C11_ReleaseUnblocksBoth ==
    [][(/\ timer_fire \/ stop_monitor
        /\ tmid = 0
        /\ disp = "idle"
        /\ "esc" \notin blocked)
          => blocked' = {}]_vars

\* C15 (as claimed): when every Timer has fired and ended, no stop_monitor is
\* under way and no Monitor thread is between its two block_key calls, no key
\* is blocked.
C15_KeysReleasedAfterTimers ==
    (/\ timers = EmptyBag
     /\ tmid = 0
     /\ disp = "idle"
     /\ \A t \in Threads : loops[t].pc # "kb_space")
    => blocked = {}

RECURSIVE C12_Chain(_, _, _, _)
\* the address the claim describes: from address a, for each offset in order,
\* the value read plus the offset when the read succeeds, else a unchanged
C12_Chain(mem, a, offs, refusals) ==
    IF offs = <<>> THEN a
    ELSE C12_Chain(mem,
                   IF a \in DOMAIN mem /\ ~Head(refusals)
                   THEN mem[a] + Head(offs) ELSE a,
                   Tail(offs), Tail(refusals))

\* C12: calculate_address returns the address reached from moduleBase + base
\* by dereferencing and adding each offset in order, a failed read leaving the
\* address unchanged; every activation ends by returning an address.
C12_ResolveFollowsChain ==
    /\ ca.pc \in {"none", "call", "for", "returned"}
    /\ ca.pc = "returned" =>
         ca.addr = C12_Chain(ca.mem, ca.module + ca.base, ca.offsets, ca.faults)

\* a chain of two offsets has been resolved whose first read failed and whose
\* second read succeeded
C12_Witness ==
    /\ ca.pc = "returned"
    /\ Len(ca.offsets) >= 2
    /\ ca.faults[1]
    /\ ~ca.faults[2]
    /\ ca.module + ca.base \in DOMAIN ca.mem
    /\ ca.addr # ca.module + ca.base

\* C13: once a Monitor thread has captured its threshold, no step changes it
\* (an edit of the entry changes nothing of the thread or of the flags), and
\* every escape / reset decision of the thread is the one the captured
\* threshold gives.
C13_ThresholdCapturedOnce ==
    [][/\ \A t \in Threads :
            /\ (loops[t].pc \notin {"none", "init"} /\ loops'[t].pc # "none")
               => loops'[t].threshold = loops[t].threshold
            /\ (loops[t].pc = "decide" /\ loops'[t].pc # "decide")
               => /\ loops'[t].pc = "post"
                     <=> escape_due(loops[t].resource_int, loops[t].threshold, ESCAPED)
                  /\ (ESCAPED /\ ~ESCAPED')
                     <=> reset_due(loops[t].resource_int, loops[t].threshold, ESCAPED)
       /\ threshold_entry' # threshold_entry
            => UNCHANGED <<loops, ESCAPED, is_monitoring, blocked, panics>>]_vars

\* a session that captured 500 has sampled 800 and decided not to escape,
\* while the entry reads 850
C13_Witness ==
    \E t \in Threads :
        /\ loops[t].pc = "reconnect"
        /\ loops[t].threshold = DefaultThreshold
        /\ loops[t].resource_int > DefaultThreshold
        /\ int_of(get_threshold_entry_value).ok
        /\ loops[t].resource_int <= int_of(get_threshold_entry_value).val
        /\ ~ESCAPED
        /\ panics = 0
        /\ is_monitoring

\* C14: a read that gives no integer puts 0 into the tick: 0 is reported, the
\* run flag is left alone, and the escape, reset and reattachment decisions are
\* those of the value 0 (a panic when the flag is false and the threshold is
\* not negative).
C14_ReadFaultIsZero ==
    [][\A t \in Threads :
          /\ (loops[t].pc = "read" /\ loops'[t].pc # "read" /\ loops'[t].absorbed)
             => /\ loops'[t].resource_int = 0
                /\ current_value' = 0
                /\ loops'[t].pc = "decide"
                /\ UNCHANGED <<is_monitoring, ESCAPED>>
          /\ (loops[t].pc = "decide" /\ loops'[t].pc # "decide" /\ loops[t].absorbed)
             => /\ loops'[t].pc = "post" <=> escape_due(0, loops[t].threshold, ESCAPED)
                /\ (~ESCAPED /\ loops[t].threshold >= 0) => loops'[t].pc = "post"
                /\ ESCAPED' # ESCAPED <=> reset_due(0, loops[t].threshold, ESCAPED)
          /\ (loops[t].pc = "reconnect" /\ loops'[t].pc # "reconnect" /\ loops[t].absorbed)
             => /\ nattach' # nattach
                   <=> reconnect_due(0, ESCAPED, now, loops[t].last_backend_setup)
                /\ loops'[t].pc = "while"]_vars

\* a read failure has triggered a panic in a running session
C14_Witness ==
    \E t \in Threads :
        /\ loops[t].pc = "post"
        /\ loops[t].absorbed
        /\ current_value = 0
        /\ is_monitoring
        /\ ~ESCAPED

\* C16: a reattachment of the loop that does not resolve a pointer (process
\* not opened, window not found, or an exception) leaves the pointer, the
\* escape flag and the run flag as they were; the thread goes on to its next
\* iteration and its next attempt is due no later than backend_interval after
\* this one.
C16_FailedReattachKeepsSession ==
    [][\A t \in Threads :
          (/\ loops[t].pc = "reconnect"
           /\ loops'[t].pc # "reconnect"
           /\ nattach' # nattach
           /\ pointer' # nattach')
          => /\ pointer' = pointer
             /\ UNCHANGED <<ESCAPED, is_monitoring, button>>
             /\ loops'[t].pc = "while"
             /\ loops'[t].last_backend_setup <= now]_vars

\* a running session whose latest reattachment failed reads on through the
\* pointer the start resolved
C16_Witness ==
    \E t \in Threads :
        /\ loops[t].pc = "read"
        /\ loops[t].last_attempt # -1
        /\ nattach >= 2
        /\ pointer # None
        /\ pointer # nattach
        /\ is_monitoring
        /\ button = "Stop"

\* C17 (as claimed): a Monitor thread whose PostMessage failed delivers no
\* further panic: it only finishes its iteration and leaves the loop.
C17_FailedPostEndsLoop ==
    \A t \in Threads :
        loops[t].post_failed => loops[t].pc \in {"reconnect", "while", "exit"}

\* C18 (as claimed): while less than KeyBlockDelay has passed since the latest
\* panic and stop_monitor has not been called since, both keys are blocked.
C18_BlockedForTwoSeconds ==
    now < engaged => blocked = {"esc", "space"}

\* the time of the latest reattachment attempt of thread t, the start of its
\* session when it has made none
C19_LastAttempt(t) ==
    IF loops[t].last_attempt # -1 THEN loops[t].last_attempt
    ELSE loops[t].last_backend_setup

\* C19 (as claimed): a tick runs a reattachment if and only if the value is 0
\* or at least 20000 or ESCAPED is true, and at least backend_interval has
\* passed since the last reattachment attempt (or the session's start).
C19_ReattachIffDue ==
    [][\A t \in Threads :
          (loops[t].pc = "reconnect" /\ loops'[t].pc # "reconnect")
          => (nattach' # nattach
              <=> /\ \/ loops[t].resource_int = 0
                     \/ loops[t].resource_int >= SentinelHigh
                     \/ ESCAPED
                  /\ now - C19_LastAttempt(t) >= backend_interval)]_vars

\* C20 (as claimed): no backend attach is executed by the display thread.
C20_NoAttachOnDisplayThread == attach_thread # "display"

\* C20 (amended): an attach executed by the display thread is the one of
\* run_monitor, made while the button reads "Start" and before the session's
\* Monitor thread exists; every other attach is a reattachment executed by a
\* Monitor thread inside its loop; stop_monitor makes none.
C20_AttachThreads ==
    [][/\ nattach' # nattach
          => \/ /\ attach_thread' = "display"
                /\ button = "Start"
                /\ disp = "idle"
                /\ \A t \in Threads :
                      \/ loops'[t] = loops[t]
                      \/ loops[t].pc = "none" /\ loops'[t].pc = "init"
             \/ /\ attach_thread' = "monitor"
                /\ \E t \in Threads :
                      loops[t].pc = "reconnect" /\ loops'[t].pc = "while"
       /\ (stop_monitor \/ stop_monitor_space)
          => UNCHANGED <<pm, hwnd, pointer, nattach, attach_thread>>]_vars

\* a session started by the display thread's attach has been reattached by
\* its Monitor thread
C20_Witness ==
    \E t \in Threads :
        /\ Alive(t)
        /\ loops[t].last_attempt # -1
        /\ attach_thread = "monitor"
        /\ nattach >= 2
        /\ button = "Stop"

\* C22 (as claimed): whenever a Monitor thread is about to read, the pointer it
\* reads through was resolved by the attach that opened the stored process
\* handle and found the stored window handle.
C22_HandlesFromSameAttach ==
    (\E t \in Threads : loops[t].pc = "read")
    => (pointer = pm /\ hwnd = pm)

\* C21 (as claimed): the value a Monitor thread compares was read through the
\* pointer of the resource whose threshold the thread captured.
C21_ValueAndThresholdOfOneResource ==
    \A t \in Threads :
        loops[t].pc = "decide" => loops[t].value_res = loops[t].threshold_res

====
